---- MODULE Spec2Model ----
(***************************************************************************)
(* Cache-aside orchestration of the watermark service:                     *)
(* ImageService (ProcessImage, WarmupCache, InvalidateCache) over the      *)
(* redis CacheClient, the S3 client and the WatermarkProcessor.            *)
(*                                                                         *)
(* Beside it: the local-filesystem cache LocalCache (LocalSpec), the       *)
(* start-up configuration config.Load (ConfigSpec), the key builder        *)
(* generateCacheKey on its own (KeySpec), requests whose caller cancels    *)
(* its context (CancelSpec) and WarmupCache under a fair scheduler         *)
(* (WarmupSpec).                                                           *)
(*                                                                         *)
(* Strings are sequences of one-character strings, so that Sprintf and     *)
(* the redis glob match are computed character by character.  A weight is  *)
(* a number of thousandths (1004 is 1.004).  Time is counted in ticks; an  *)
(* entry written with a TTL lives CacheTTL ticks.                          *)
(***************************************************************************)
EXTENDS Integers, Sequences, FiniteSets, TLC

\* ---------------------------------------------------------------- bounds
NumTasks == 2
CacheTTL == 2
MaxBatch == 2
MaxInFlight == 2
MaxCalls == 3

\* ------------------------------------------------------- program constants
ImageQuality == 90

Tasks == 1..NumTasks

\* ------------------------------------------------------------- strings
Prefix == <<"i", "m", "a", "g", "e", ":">>

IdPlain == <<"a">>
IdColon == <<"a", ":", "1", ".", "0", "0">>
IdGlob == <<"[", "a", "]">>

DimPlain == <<"x">>
DimColon == <<"2", ".", "0", "0", ":", "x">>

ProcessRequest(id, w, d) == [ImageID |-> id, Weight |-> w, Dimensions |-> d]

Requests ==
    { ProcessRequest(IdPlain, 1004, DimColon),
      ProcessRequest(IdColon, 2000, DimPlain),
      ProcessRequest(IdGlob, 1000, DimPlain) }

ImageIDs == { r.ImageID : r \in Requests }

Digit(n) == <<"0", "1", "2", "3", "4", "5", "6", "7", "8", "9">>[n + 1]

RECURSIVE Itoa(_)
Itoa(n) == IF n < 10 THEN <<Digit(n)>> ELSE Itoa(n \div 10) \o <<Digit(n % 10)>>

\* Mutant: the weight is formatted with one decimal place.
FormatWeightOneDecimal(w) ==
    LET h == (w + 50) \div 100
    IN  Itoa(h \div 10) \o <<".">> \o <<Digit(h % 10)>>

\* Sprintf("%.2f", w): w in thousandths, rounded to hundredths.
FormatWeight(w) ==
    LET h == (w + 5) \div 10
    IN  Itoa(h \div 100) \o <<".">> \o <<Digit((h % 100) \div 10), Digit(h % 10)>>

generateCacheKey(r) ==
    Prefix \o r.ImageID \o <<":">> \o FormatWeight(r.Weight) \o <<":">> \o r.Dimensions

InvalidatePattern(imageID) == Prefix \o imageID \o <<":", "*">>

\* Index of the first "]" of p at or after position i, 0 if there is none.
RECURSIVE ClassEnd(_, _)
ClassEnd(p, i) ==
    IF i > Len(p) THEN 0
    ELSE IF p[i] = "]" THEN i
    ELSE ClassEnd(p, i + 1)

\* The glob match of redis SCAN MATCH: * ? [abc] [^abc] \x and literals.
RECURSIVE GlobMatch(_, _)
GlobMatch(p, s) ==
    IF p = <<>> THEN s = <<>>
    ELSE IF Head(p) = "*"
        THEN GlobMatch(Tail(p), s) \/ (s # <<>> /\ GlobMatch(p, Tail(s)))
    ELSE IF s = <<>> THEN FALSE
    ELSE IF Head(p) = "?" THEN GlobMatch(Tail(p), Tail(s))
    ELSE IF Head(p) = "[" /\ ClassEnd(p, 2) # 0
        THEN LET e == ClassEnd(p, 2)
                 neg == e > 2 /\ p[2] = "^"
                 members == { p[i] : i \in (IF neg THEN 3 ELSE 2)..(e - 1) }
             IN  /\ (Head(s) \in members) # neg
                 /\ GlobMatch(SubSeq(p, e + 1, Len(p)), Tail(s))
    ELSE IF Head(p) = "\\" /\ Len(p) >= 2
        THEN p[2] = Head(s) /\ GlobMatch(SubSeq(p, 3, Len(p)), Tail(s))
    ELSE Head(p) = Head(s) /\ GlobMatch(Tail(p), Tail(s))

Keys == { generateCacheKey(r) : r \in Requests }

\* ------------------------------------------------------- values and errors
Nil == [nil |-> TRUE]
NoErr == "nil"
ErrRedisGet == "redis get error"
ErrRedisSet == "redis set error"
ErrScan == "failed to scan cache keys"
ErrDel == "failed to delete cache keys"
ErrDownload == "failed to download from S3"
ErrProcess == "failed to process image"
ErrInvalidate == "failed to invalidate cache"
ErrS3 == "s3 error"
ErrDecode == "failed to decode image"

\* What the bucket can answer for an identifier: its image, bytes that are no
\* image, or an error (not unavailable).
S3Outcomes == {"image", "garbage", "error"}

GetObject(id, outcome) ==
    IF outcome = "error" THEN [data |-> Nil, err |-> ErrS3]
    ELSE [data |-> [src |-> id, decodable |-> outcome = "image"], err |-> NoErr]

WatermarkOptions(r) ==
    [Weight |-> r.Weight, Dimensions |-> r.Dimensions, Quality |-> ImageQuality]

\* The image with the two text lines drawn on it, or a decode error.
AddWatermark(imageData, opts) ==
    IF ~imageData.decodable THEN [data |-> Nil, err |-> ErrDecode]
    ELSE [data |-> [img |-> imageData.src,
                    weight |-> FormatWeight(opts.Weight),
                    dims |-> opts.Dimensions,
                    quality |-> opts.Quality],
          err |-> NoErr]

\* ------------------------------------------------------------ redis cache
\* An entry carries its payload and its age; by is the identifier of the request
\* it was built for (a history field the program does not read).
NoEntry == [present |-> FALSE]
Entry(v, id) == [present |-> TRUE, val |-> v, age |-> 0, by |-> id]

CacheGet(st, k, fail) ==
    IF fail THEN [data |-> Nil, err |-> ErrRedisGet]
    ELSE IF st[k].present THEN [data |-> st[k].val, err |-> NoErr]
    ELSE [data |-> Nil, err |-> NoErr]

CacheSet(st, k, v, id, fail) ==
    IF fail THEN [store |-> st, err |-> ErrRedisSet]
    ELSE [store |-> [st EXCEPT ![k] = Entry(v, id)], err |-> NoErr]

ScanKeys(st, pattern) == { k \in DOMAIN st : st[k].present /\ GlobMatch(pattern, k) }

DelKeys(st, ks) == [k \in DOMAIN st |-> IF k \in ks THEN NoEntry ELSE st[k]]

\* The transform of the image of the request's identifier.
Expected(r) ==
    AddWatermark(GetObject(r.ImageID, "image").data, WatermarkOptions(r)).data

\* ------------------------------------------------------------ local cache
\* LocalCache keeps one file per key.  The file name is the hex SHA-1 of the
\* key (taken to be free of collisions) with the suffix .jpg.
getFilePath(k) == <<"sha1(">> \o k \o <<")", ".jpg">>

Paths == { getFilePath(k) : k \in Keys }

ErrStat == "stat error"
ErrRemove == "remove error"
ErrRead == "read error"
ErrOpen == "open error"
ErrWrite == "write error"

\* A file has its bytes and the age of its last-modified time in ticks.
\* Empty is the content of a file of length zero (a non-nil empty slice).
NoFile == [exists |-> FALSE]
Empty == [empty |-> TRUE]
File(data) == [exists |-> TRUE, data |-> data, age |-> 0]

\* What a request puts in the cache under its key.
Payloads(k) == { Expected(r) : r \in { q \in Requests : generateCacheKey(q) = k } }

\* Get after os.Stat: no file is a miss, another error is returned, a file
\* older than the TTL is removed, a younger one is read.
StatOutcome(f, fail) ==
    IF fail THEN [pc |-> "done", ret |-> [data |-> Nil, err |-> ErrStat]]
    ELSE IF ~f.exists THEN [pc |-> "done", ret |-> [data |-> Nil, err |-> NoErr]]
    ELSE IF f.age > CacheTTL THEN [pc |-> "remove", ret |-> [data |-> Nil, err |-> NoErr]]
    ELSE [pc |-> "read", ret |-> [data |-> Nil, err |-> NoErr]]

\* Mutant: the stale file is left in place.
RemoveOutcomeKeep(f, fail) ==
    [file |-> f, rmErr |-> IF fail \/ ~f.exists THEN ErrRemove ELSE NoErr,
     ret |-> [data |-> Nil, err |-> NoErr]]

\* Mutant: the error of os.Remove is returned by the Get.
RemoveOutcomePropagate(f, fail) ==
    IF fail \/ ~f.exists
        THEN [file |-> f, rmErr |-> ErrRemove, ret |-> [data |-> Nil, err |-> ErrRemove]]
        ELSE [file |-> NoFile, rmErr |-> NoErr, ret |-> [data |-> Nil, err |-> NoErr]]

\* Get on a stale file: os.Remove of whatever is at the path now; its error
\* is only logged and the Get is a miss.
RemoveOutcome(f, fail) ==
    IF fail \/ ~f.exists
        THEN [file |-> f, rmErr |-> ErrRemove, ret |-> [data |-> Nil, err |-> NoErr]]
        ELSE [file |-> NoFile, rmErr |-> NoErr, ret |-> [data |-> Nil, err |-> NoErr]]

\* Get on a fresh file: os.ReadFile of whatever is at the path now.
ReadOutcome(f, fail) ==
    IF fail \/ ~f.exists THEN [data |-> Nil, err |-> ErrRead]
    ELSE [data |-> f.data, err |-> NoErr]

\* os.WriteFile, the open with O_CREATE|O_TRUNC: the file is there and empty.
OpenOutcome(f, fail) ==
    IF fail THEN [file |-> f, err |-> ErrOpen]
    ELSE [file |-> File(Empty), err |-> NoErr]

\* os.WriteFile, the write of the bytes to the opened file.  A file that was
\* unlinked after the open (detached) is written to but is not at the path.
WriteOutcome(f, data, fail, detached) ==
    IF fail THEN [file |-> f, err |-> ErrWrite]
    ELSE IF detached THEN [file |-> f, err |-> NoErr]
    ELSE [file |-> File(data), err |-> NoErr]

\* ------------------------------------------------------------ config.Load
\* The values of the environment are strings (sequences of characters).
Str(s) ==
    CASE s = "" -> <<>>
      [] s = "redis" -> <<"r", "e", "d", "i", "s">>
      [] s = "local" -> <<"l", "o", "c", "a", "l">>
      [] s = "memcached" -> <<"m", "e", "m", "c", "a", "c", "h", "e", "d">>
      [] s = "redis://" -> <<"r", "e", "d", "i", "s", ":", "/", "/">>
      [] s = "rediss://" -> <<"r", "e", "d", "i", "s", "s", ":", "/", "/">>
      [] s = "http://" -> <<"h", "t", "t", "p", ":", "/", "/">>
      [] s = "h:1" -> <<"h", ":", "1">>
      [] s = "localhost:6379" ->
            <<"l", "o", "c", "a", "l", "h", "o", "s", "t", ":", "6", "3", "7", "9">>
      [] s = "bucket" -> <<"b", "u", "c", "k", "e", "t">>
      [] s = "id" -> <<"i", "d">>
      [] s = "secret" -> <<"s", "e", "c", "r", "e", "t">>

EnvVars ==
    {"REDIS_URL", "CACHE_PROVIDER", "S3_BUCKET", "S3_ACCESS_KEY_ID",
     "S3_SECRET_ACCESS_KEY"}

Unset == [set |-> FALSE, val |-> <<>>]
Setenv(v) == [set |-> TRUE, val |-> v]

\* The environments config.Load is run in.
EnvValues(k) ==
    CASE k = "REDIS_URL" ->
            {Unset, Setenv(Str("redis://") \o Str("h:1")), Setenv(Str("http://") \o Str("h:1"))}
      [] k = "CACHE_PROVIDER" ->
            {Unset, Setenv(Str("")), Setenv(Str("redis")), Setenv(Str("local")),
             Setenv(Str("memcached"))}
      [] k = "S3_BUCKET" -> {Unset, Setenv(Str("")), Setenv(Str("bucket"))}
      [] k = "S3_ACCESS_KEY_ID" -> {Unset, Setenv(Str("")), Setenv(Str("id"))}
      [] k = "S3_SECRET_ACCESS_KEY" -> {Unset, Setenv(Str("")), Setenv(Str("secret"))}

Environments == { e \in [EnvVars -> UNION { EnvValues(k) : k \in EnvVars }] :
                    \A k \in EnvVars : e[k] \in EnvValues(k) }

ErrRedisURL == "could not parse REDIS_URL"
ErrBucket == "S3_BUCKET environment variable is required"

\* os.Getenv and the helper getEnv (os.LookupEnv with a fallback).
Getenv(e, k) == IF e[k].set THEN e[k].val ELSE <<>>
getEnv(e, k, fallback) == IF e[k].set THEN e[k].val ELSE fallback

HasPrefix(s, p) == Len(s) >= Len(p) /\ SubSeq(s, 1, Len(p)) = p

\* redis.ParseURL: the scheme must be redis or rediss; the host follows.
ParseURL(u) ==
    IF HasPrefix(u, Str("redis://"))
        THEN [opts |-> [Addr |-> SubSeq(u, Len(Str("redis://")) + 1, Len(u))], err |-> NoErr]
    ELSE IF HasPrefix(u, Str("rediss://"))
        THEN [opts |-> [Addr |-> SubSeq(u, Len(Str("rediss://")) + 1, Len(u))], err |-> NoErr]
    ELSE [opts |-> Nil, err |-> "invalid URL scheme"]

loadRedisConfig(e) ==
    LET redisURL == Getenv(e, "REDIS_URL")
    IN  IF redisURL # <<>>
           THEN LET p == ParseURL(redisURL)
                IN  IF p.err # NoErr THEN [cfg |-> Nil, err |-> ErrRedisURL]
                    ELSE [cfg |-> [Addr |-> p.opts.Addr], err |-> NoErr]
           ELSE [cfg |-> [Addr |-> Str("localhost:6379")], err |-> NoErr]

\* config.Load: the redis settings, then the Config, then the one check.
Load(e) ==
    LET rc == loadRedisConfig(e)
        c == [Storage |-> [S3 |-> [Bucket |-> getEnv(e, "S3_BUCKET", <<>>),
                                   AccessKeyID |-> getEnv(e, "S3_ACCESS_KEY_ID", <<>>),
                                   SecretAccessKey |->
                                       getEnv(e, "S3_SECRET_ACCESS_KEY", <<>>)]],
              Cache |-> [Provider |-> getEnv(e, "CACHE_PROVIDER", Str("redis")),
                         Redis |-> rc.cfg],
              ImageQuality |-> ImageQuality]
    IN  IF rc.err # NoErr THEN [cfg |-> Nil, err |-> rc.err]
        ELSE IF c.Storage.S3.Bucket = <<>>
            THEN [cfg |-> Nil, err |-> ErrBucket]
        ELSE [cfg |-> c, err |-> NoErr]

\* ------------------------------------------------------- generateCacheKey
IdPhoto == <<"p", "h", "o", "t", "o", "-", "4", "2">>
DimBox == <<"3", "0", "x", "2", "0", "x", "1", "5">>

\* The requests the key builder is run on; no weight is halfway between two
\* hundredths.
KeyWeights == {0, 4, 9, 994, 996, 1000, 1004, 2000, 9996, 12500, 99999, 123456}

KeyRequests ==
    { ProcessRequest(id, w, d) :
        id \in {IdPhoto, IdPlain, IdColon}, w \in KeyWeights, d \in {DimBox, DimPlain} }

\* -------------------------------------------------------------- the state
VARIABLES
    store,      \* redis: key -> entry
    pc,         \* task -> "idle" | "get" | "s3" | "set" | "done"
    req,        \* task -> the ProcessRequest of its ProcessImage call
    key,        \* task -> cacheKey
    processed,  \* task -> the transform result waiting for the cache Set
    result,     \* task -> (bytes, error) returned by ProcessImage
    trace,      \* task -> the calls the request made, in order (history)
    last,       \* the latest successful ProcessImage within the TTL (history)
    inv,        \* the InvalidateCache call
    warmup,     \* the WarmupCache call
    ctx,        \* task -> the context of its ProcessImage call is cancelled
    metrics,    \* the prometheus collectors of the service package
    files,      \* LocalCache directory: file path -> file
    local,      \* task -> its LocalCache.Get or LocalCache.Set call
    lastSet,    \* key -> payload and age of its last Set that returned nil (history)
    env,        \* the process environment read by config.Load
    cfg,        \* what config.Load returned
    keyReq,     \* the ProcessRequest handed to generateCacheKey
    cacheKey,   \* the key generateCacheKey returned for keyReq
    batch       \* the ProcessBatch call: arguments, slices, goroutines, return

\* The variables of the service, of the local cache, of config.Load and of
\* the key builder.
svars == <<store, pc, req, key, processed, result, trace, last, inv, warmup>>
lvars == <<files, local, lastSet>>
cvars == <<env, cfg>>
kvars == <<keyReq, cacheKey>>
bvars == <<batch>>
xvars == <<lvars, cvars, kvars, bvars>>
vars == <<svars, ctx, metrics, xvars>>

NoReq == ProcessRequest(<<>>, 0, <<>>)
NoResult == [data |-> Nil, err |-> NoErr]
NoPrior == [known |-> FALSE]
InvIdle ==
    [pc |-> "idle", id |-> <<>>, keys |-> {}, owned |-> {}, removed |-> {},
     count |-> 0, cacheErr |-> NoErr, err |-> NoErr]
WarmupIdle == [pc |-> "idle", n |-> 0, err |-> NoErr]

\* The collectors after promauto registered them: two counters at zero and a
\* histogram without observations (only their number is kept).
NoMetrics == [cacheHits |-> 0, cacheMisses |-> 0, processingDuration |-> 0]

LocalIdle ==
    [op |-> "idle", pc |-> "idle", key |-> <<>>, data |-> Nil, detached |-> FALSE,
     stale |-> FALSE, rmErr |-> NoErr, ret |-> NoResult]
NoSet == [valid |-> FALSE]
NoEnv == [k \in EnvVars |-> Unset]
NotLoaded == [loaded |-> FALSE]

\* The service after NewImageService, nothing called yet.
ServiceInit ==
    /\ store = [k \in Keys |-> NoEntry]
    /\ pc = [t \in Tasks |-> "idle"]
    /\ req = [t \in Tasks |-> NoReq]
    /\ key = [t \in Tasks |-> <<>>]
    /\ processed = [t \in Tasks |-> Nil]
    /\ result = [t \in Tasks |-> NoResult]
    /\ trace = [t \in Tasks |-> <<>>]
    /\ last = NoPrior
    /\ inv = InvIdle
    /\ warmup = WarmupIdle
    /\ ctx = [t \in Tasks |-> FALSE]
    /\ metrics = NoMetrics

\* The local cache after NewLocalCache: an empty directory.
LocalInit ==
    /\ files = [p \in Paths |-> NoFile]
    /\ local = [t \in Tasks |-> LocalIdle]
    /\ lastSet = [k \in Keys |-> NoSet]

ConfigIdle == env = NoEnv /\ cfg = NotLoaded

KeyIdle == keyReq = NoReq /\ cacheKey = <<>>

\* ProcessBatch not called.  spawned is the number of goroutines started,
\* running the indexes whose goroutine has not called wg.Done; at is the index
\* of the item whose error is returned (0: none; a history field).
NoBatchResult == [results |-> Nil, err |-> NoErr, at |-> 0]
NoBatch ==
    [pc |-> "idle", images |-> <<>>, opts |-> <<>>, results |-> <<>>,
     errors |-> <<>>, spawned |-> 0, running |-> {}, ret |-> NoBatchResult]
BatchIdle == batch = NoBatch

Init == ServiceInit /\ LocalInit /\ ConfigIdle /\ KeyIdle /\ BatchIdle

\* The operations that have been called and whose result has not been taken.
InFlight ==
    Cardinality({ t \in Tasks : pc[t] # "idle" }) + (IF inv.pc # "idle" THEN 1 ELSE 0)

\* ----------------------------------------------------------- ProcessImage
\* Mutant: the payload found in the cache is not used.
LookupOutcomeNoHit(got) == [pc |-> "s3", result |-> NoResult]

\* Mutant: an error of cache.Get ends the request.
LookupOutcomeFailOnError(got) ==
    IF got.err # NoErr
        THEN [pc |-> "done", result |-> [data |-> Nil, err |-> got.err]]
    ELSE IF got.data # Nil
        THEN [pc |-> "done", result |-> [data |-> got.data, err |-> NoErr]]
        ELSE [pc |-> "s3", result |-> NoResult]

\* After cache.Get: the error is only logged; a payload ends the request.
LookupOutcome(got) ==
    IF got.data # Nil
        THEN [pc |-> "done", result |-> [data |-> got.data, err |-> NoErr]]
        ELSE [pc |-> "s3", result |-> NoResult]

\* Mutant: the error of GetObject is not checked before the transform.
DownloadOutcomeNoS3Check(r, obj) ==
    LET p == AddWatermark([src |-> r.ImageID, decodable |-> obj.err = NoErr /\ obj.data.decodable],
                          WatermarkOptions(r))
        s3 == IF obj.err # NoErr THEN "s3:err" ELSE "s3:ok"
    IN  IF p.err # NoErr
           THEN [pc |-> "done", calls |-> <<s3, "xf:err">>, processed |-> Nil,
                 result |-> [data |-> Nil, err |-> ErrProcess]]
           ELSE [pc |-> "set", calls |-> <<s3, "xf:ok">>,
                 processed |-> p.data, result |-> NoResult]

\* Mutant: the error of AddWatermark is not checked before the cache Set.
DownloadOutcomeNoXfCheck(r, obj) ==
    IF obj.err # NoErr
        THEN [pc |-> "done", calls |-> <<"s3:err">>, processed |-> Nil,
              result |-> [data |-> Nil, err |-> ErrDownload]]
    ELSE LET p == AddWatermark(obj.data, WatermarkOptions(r))
         IN  [pc |-> "set",
              calls |-> <<"s3:ok", IF p.err # NoErr THEN "xf:err" ELSE "xf:ok">>,
              processed |-> p.data, result |-> NoResult]

\* GetObject, then AddWatermark on what it returned.
DownloadOutcome(r, obj) ==
    IF obj.err # NoErr
        THEN [pc |-> "done", calls |-> <<"s3:err">>, processed |-> Nil,
              result |-> [data |-> Nil, err |-> ErrDownload]]
    ELSE LET p == AddWatermark(obj.data, WatermarkOptions(r))
         IN  IF p.err # NoErr
                THEN [pc |-> "done", calls |-> <<"s3:ok", "xf:err">>,
                      processed |-> Nil,
                      result |-> [data |-> Nil, err |-> ErrProcess]]
                ELSE [pc |-> "set", calls |-> <<"s3:ok", "xf:ok">>,
                      processed |-> p.data, result |-> NoResult]

\* Mutant: the error of cache.Set is returned.
StoreOutcomePropagate(p, setErr) ==
    IF setErr # NoErr THEN [data |-> Nil, err |-> setErr] ELSE [data |-> p, err |-> NoErr]

\* After cache.Set: the error is only logged.
StoreOutcome(p, setErr) == [data |-> p, err |-> NoErr]

Remember(r, out) == [known |-> TRUE, req |-> r, out |-> out, age |-> 0]

\* Mutant: every lookup is counted as a miss.
CountLookupAlwaysMiss(m, got) == [m EXCEPT !.cacheMisses = @ + 1]

\* cacheHits.Inc() when a payload was found, cacheMisses.Inc() otherwise.
CountLookup(m, got) ==
    IF got.data # Nil THEN [m EXCEPT !.cacheHits = @ + 1]
    ELSE [m EXCEPT !.cacheMisses = @ + 1]

\* The deferred processingDuration.Observe, run when ProcessImage returns.
ObserveOnReturn(m, returns) ==
    IF returns THEN [m EXCEPT !.processingDuration = @ + 1] ELSE m

\* The ProcessImage calls made so far and the goroutines waiting to make one.
CallsMade ==
    metrics.cacheHits + metrics.cacheMisses
        + Cardinality({ t \in Tasks : pc[t] = "get" })

\* ProcessImage up to the return on a hit: key build and cache.Get.  A call
\* to a backend made with a cancelled context fails.
Lookup(t, r, fail) ==
    LET k == generateCacheKey(r)
        got == CacheGet(store, k, fail \/ ctx[t])
        o == LookupOutcome(got)
    IN  /\ pc' = [pc EXCEPT ![t] = o.pc]
        /\ req' = [req EXCEPT ![t] = r]
        /\ key' = [key EXCEPT ![t] = k]
        /\ result' = [result EXCEPT ![t] = o.result]
        /\ trace' = [trace EXCEPT ![t] = <<
               IF got.err # NoErr THEN "get:err"
               ELSE IF got.data # Nil THEN "get:hit" ELSE "get:miss">>]
        /\ last' = IF o.pc = "done" /\ o.result.err = NoErr
                      THEN Remember(r, o.result.data) ELSE last
        /\ metrics' = ObserveOnReturn(CountLookup(metrics, got), o.pc = "done")
        /\ UNCHANGED <<store, processed, inv, warmup, ctx, xvars>>

\* A caller calls ProcessImage(r).
Call(t, r, fail) ==
    /\ pc[t] = "idle"
    /\ InFlight < MaxInFlight
    /\ CallsMade < MaxCalls
    /\ Lookup(t, r, fail)

\* A goroutine of WarmupCache starts its ProcessImage.
Run(t, fail) ==
    /\ pc[t] = "get"
    /\ Lookup(t, req[t], fail)

\* Mutant: a failed GetObject ends the requests that run beside it.
DownloadCancelSiblings(t, outcome) ==
    /\ pc[t] = "s3"
    /\ LET o == DownloadOutcome(req[t],
                  GetObject(req[t].ImageID, IF ctx[t] THEN "error" ELSE outcome))
           hit == { u \in Tasks : u # t /\ o.result.err = ErrDownload
                                  /\ pc[u] \in {"get", "s3", "set"} }
       IN  /\ pc' = [u \in Tasks |-> IF u = t THEN o.pc
                                     ELSE IF u \in hit THEN "done" ELSE pc[u]]
           /\ processed' = [processed EXCEPT ![t] = o.processed]
           /\ result' = [u \in Tasks |-> IF u = t THEN o.result
                                         ELSE IF u \in hit THEN o.result ELSE result[u]]
           /\ trace' = [trace EXCEPT ![t] = @ \o o.calls]
           /\ metrics' = ObserveOnReturn(metrics, o.pc = "done")
    /\ UNCHANGED <<store, req, key, last, inv, warmup, ctx, xvars>>

Download(t, outcome) ==
    /\ pc[t] = "s3"
    /\ LET o == DownloadOutcome(req[t],
                  GetObject(req[t].ImageID, IF ctx[t] THEN "error" ELSE outcome))
       IN  /\ pc' = [pc EXCEPT ![t] = o.pc]
           /\ processed' = [processed EXCEPT ![t] = o.processed]
           /\ result' = [result EXCEPT ![t] = o.result]
           /\ trace' = [trace EXCEPT ![t] = @ \o o.calls]
           /\ metrics' = ObserveOnReturn(metrics, o.pc = "done")
    /\ UNCHANGED <<store, req, key, last, inv, warmup, ctx, xvars>>

\* Mutant: the result is set under another key than the one looked up.
StoreOtherKey(t, fail) ==
    /\ pc[t] = "set"
    /\ LET other == CHOOSE k \in Keys : k # key[t]
           cs == CacheSet(store, other, processed[t], req[t].ImageID, fail \/ ctx[t])
           out == StoreOutcome(processed[t], cs.err)
       IN  /\ store' = cs.store
           /\ result' = [result EXCEPT ![t] = out]
           /\ trace' = [trace EXCEPT ![t] = Append(@,
                  IF cs.err # NoErr THEN "set:err" ELSE "set:ok")]
           /\ last' = IF out.err = NoErr THEN Remember(req[t], out.data) ELSE last
    /\ pc' = [pc EXCEPT ![t] = "done"]
    /\ metrics' = ObserveOnReturn(metrics, TRUE)
    /\ UNCHANGED <<req, key, processed, inv, warmup, ctx, xvars>>

Store(t, fail) ==
    /\ pc[t] = "set"
    /\ LET cs == CacheSet(store, key[t], processed[t], req[t].ImageID, fail \/ ctx[t])
           out == StoreOutcome(processed[t], cs.err)
       IN  /\ store' = cs.store
           /\ result' = [result EXCEPT ![t] = out]
           /\ trace' = [trace EXCEPT ![t] = Append(@,
                  IF cs.err # NoErr THEN "set:err" ELSE "set:ok")]
           /\ last' = IF out.err = NoErr THEN Remember(req[t], out.data) ELSE last
    /\ pc' = [pc EXCEPT ![t] = "done"]
    /\ metrics' = ObserveOnReturn(metrics, TRUE)
    /\ UNCHANGED <<req, key, processed, inv, warmup, ctx, xvars>>

\* The result is handed to the caller (or logged by the warmup goroutine).
Return(t) ==
    /\ pc[t] = "done"
    /\ pc' = [pc EXCEPT ![t] = "idle"]
    /\ req' = [req EXCEPT ![t] = NoReq]
    /\ key' = [key EXCEPT ![t] = <<>>]
    /\ processed' = [processed EXCEPT ![t] = Nil]
    /\ result' = [result EXCEPT ![t] = NoResult]
    /\ trace' = [trace EXCEPT ![t] = <<>>]
    /\ ctx' = [ctx EXCEPT ![t] = FALSE]
    /\ UNCHANGED <<store, last, inv, warmup, metrics, xvars>>

\* The caller cancels the context it gave to ProcessImage (the client of the
\* HTTP request went away) while the call is running.
Cancel(t) ==
    /\ pc[t] \in {"s3", "set"}
    /\ ~ctx[t]
    /\ ctx' = [ctx EXCEPT ![t] = TRUE]
    /\ UNCHANGED <<svars, metrics, xvars>>

\* ------------------------------------------------------------ WarmupCache
\* Mutant: no goroutine is started for the first request of the list.
WarmupCacheSkipFirst(ts, f) ==
    /\ ts # {} /\ Cardinality(ts) <= MaxBatch
    /\ \A t \in ts : pc[t] = "idle"
    /\ InFlight + Cardinality(ts) <= MaxInFlight
    /\ CallsMade + Cardinality(ts) <= MaxCalls
    /\ LET first == CHOOSE t \in ts : \A u \in ts : t <= u
       IN  /\ pc' = [t \in Tasks |-> IF t \in ts \ {first} THEN "get" ELSE pc[t]]
           /\ req' = [t \in Tasks |-> IF t \in ts \ {first} THEN f[t] ELSE req[t]]
    /\ warmup' = [pc |-> "returned", n |-> Cardinality(ts), err |-> NoErr]
    /\ UNCHANGED <<store, key, processed, result, trace, last, inv, ctx, metrics, xvars>>

\* One goroutine per request of the list; nil is returned at once.
WarmupCache(ts, f) ==
    /\ ts # {} /\ Cardinality(ts) <= MaxBatch
    /\ \A t \in ts : pc[t] = "idle"
    /\ InFlight + Cardinality(ts) <= MaxInFlight
    /\ CallsMade + Cardinality(ts) <= MaxCalls
    /\ pc' = [t \in Tasks |-> IF t \in ts THEN "get" ELSE pc[t]]
    /\ req' = [t \in Tasks |-> IF t \in ts THEN f[t] ELSE req[t]]
    /\ warmup' = [pc |-> "returned", n |-> Cardinality(ts), err |-> NoErr]
    /\ UNCHANGED <<store, key, processed, result, trace, last, inv, ctx, metrics, xvars>>

\* -------------------------------------------------------- InvalidateCache
\* Mutant: the error of DeleteByPattern is only logged.
InvalidateOutcomeSwallow(cacheErr) == NoErr

\* The error InvalidateCache returns for what DeleteByPattern returned.
InvalidateOutcome(cacheErr) == IF cacheErr # NoErr THEN ErrInvalidate ELSE NoErr

\* The keys that were built for an identifier (history).
OwnedKeys(st, id) == { k \in DOMAIN st : st[k].present /\ st[k].by = id }

\* DeleteByPattern, the SCAN: a failure ends it, no key ends it with count 0.
InvalidateScan(id, fail) ==
    /\ inv.pc = "idle"
    /\ InFlight < MaxInFlight
    /\ LET ks == ScanKeys(store, InvalidatePattern(id))
           started == [InvIdle EXCEPT !.id = id, !.owned = OwnedKeys(store, id)]
       IN  inv' =
             IF fail
                THEN [started EXCEPT !.pc = "done", !.cacheErr = ErrScan,
                          !.err = InvalidateOutcome(ErrScan)]
             ELSE IF ks = {}
                THEN [started EXCEPT !.pc = "done", !.err = InvalidateOutcome(NoErr)]
             ELSE [started EXCEPT !.pc = "del", !.keys = ks]
    /\ UNCHANGED <<store, pc, req, key, processed, result, trace, last, warmup, ctx, metrics, xvars>>

\* DeleteByPattern, the bulk DEL of the scanned keys.
InvalidateDel(fail) ==
    /\ inv.pc = "del"
    /\ IF fail
          THEN /\ inv' = [inv EXCEPT !.pc = "done", !.cacheErr = ErrDel,
                              !.err = InvalidateOutcome(ErrDel)]
               /\ store' = store
          ELSE /\ inv' = [inv EXCEPT !.pc = "done",
                              !.count = Cardinality(inv.keys),
                              !.removed = { <<k, store[k].by>> :
                                            k \in { x \in inv.keys : store[x].present } },
                              !.err = InvalidateOutcome(NoErr)]
               /\ store' = DelKeys(store, inv.keys)
    /\ UNCHANGED <<pc, req, key, processed, result, trace, last, warmup, ctx, metrics, xvars>>

InvalidateReturn ==
    /\ inv.pc = "done"
    /\ inv' = InvIdle
    /\ UNCHANGED <<store, pc, req, key, processed, result, trace, last, warmup, ctx, metrics, xvars>>

\* ------------------------------------------------------------------- time
Aged(e) ==
    IF e.present /\ e.age + 1 < CacheTTL THEN [e EXCEPT !.age = @ + 1] ELSE NoEntry

AgedPrior(p) ==
    IF p.known /\ p.age + 1 < CacheTTL THEN [p EXCEPT !.age = @ + 1] ELSE NoPrior

\* One tick passes: redis drops the entries whose TTL has run out.
Tick ==
    /\ store' = [k \in DOMAIN store |-> Aged(store[k])]
    /\ last' = AgedPrior(last)
    /\ UNCHANGED <<pc, req, key, processed, result, trace, inv, warmup, ctx, metrics, xvars>>

Next ==
    \/ \E t \in Tasks, r \in Requests, fail \in BOOLEAN : Call(t, r, fail)
    \/ \E t \in Tasks, fail \in BOOLEAN : Run(t, fail)
    \/ \E t \in Tasks, outcome \in S3Outcomes : Download(t, outcome)
    \/ \E t \in Tasks, fail \in BOOLEAN : Store(t, fail)
    \/ \E t \in Tasks : Return(t)
    \/ \E ts \in SUBSET Tasks : \E f \in [ts -> Requests] : WarmupCache(ts, f)
    \/ \E id \in ImageIDs, fail \in BOOLEAN : InvalidateScan(id, fail)
    \/ \E fail \in BOOLEAN : InvalidateDel(fail)
    \/ InvalidateReturn
    \/ Tick

Spec == Init /\ [][Next]_vars

\* ------------------------------------------------------------- LocalCache
\* LocalCache.Get up to the TTL test: os.Stat of the file of the key.
LocalGet(t, k, fail) ==
    /\ local[t].op = "idle"
    /\ LET o == StatOutcome(files[getFilePath(k)], fail)
       IN  local' = [local EXCEPT ![t] =
                        [LocalIdle EXCEPT !.op = "Get", !.pc = o.pc, !.key = k,
                                          !.stale = (o.pc = "remove"), !.ret = o.ret]]
    /\ UNCHANGED <<files, lastSet, svars, ctx, metrics, cvars, kvars, bvars>>

\* LocalCache.Get on a stale file: os.Remove, then the miss is returned.  A
\* Set that has the removed file open keeps writing to it.
LocalRemove(t, fail) ==
    /\ local[t].pc = "remove"
    /\ LET p == getFilePath(local[t].key)
           o == RemoveOutcome(files[p], fail)
       IN  /\ files' = [files EXCEPT ![p] = o.file]
           /\ local' = [u \in Tasks |->
                 IF u = t THEN [local[t] EXCEPT !.pc = "done", !.rmErr = o.rmErr, !.ret = o.ret]
                 ELSE IF local[u].pc = "write" /\ local[u].key = local[t].key
                         /\ files[p].exists /\ ~o.file.exists
                    THEN [local[u] EXCEPT !.detached = TRUE]
                 ELSE local[u]]
           /\ lastSet' = IF files[p].exists /\ ~o.file.exists
                            THEN [lastSet EXCEPT ![local[t].key] = NoSet]
                            ELSE lastSet
    /\ UNCHANGED <<svars, ctx, metrics, cvars, kvars, bvars>>

\* LocalCache.Get on a fresh file: os.ReadFile, whose result is returned.
LocalRead(t, fail) ==
    /\ local[t].pc = "read"
    /\ local' = [local EXCEPT ![t] =
                    [@ EXCEPT !.pc = "done",
                              !.ret = ReadOutcome(files[getFilePath(local[t].key)], fail)]]
    /\ UNCHANGED <<files, lastSet, svars, ctx, metrics, cvars, kvars, bvars>>

\* LocalCache.Set, os.WriteFile up to the open of the file.
LocalSet(t, k, data, fail) ==
    /\ local[t].op = "idle"
    /\ LET p == getFilePath(k)
           o == OpenOutcome(files[p], fail)
       IN  /\ files' = [files EXCEPT ![p] = o.file]
           /\ local' = [local EXCEPT ![t] =
                 [LocalIdle EXCEPT !.op = "Set", !.key = k, !.data = data,
                                   !.pc = IF o.err # NoErr THEN "done" ELSE "write",
                                   !.ret = [data |-> Nil, err |-> o.err]]]
           /\ lastSet' = [lastSet EXCEPT ![k] = NoSet]
    /\ UNCHANGED <<svars, ctx, metrics, cvars, kvars, bvars>>

\* LocalCache.Set, os.WriteFile from the write on, and the return.
LocalWrite(t, fail) ==
    /\ local[t].pc = "write"
    /\ LET p == getFilePath(local[t].key)
           o == WriteOutcome(files[p], local[t].data, fail, local[t].detached)
       IN  /\ files' = [files EXCEPT ![p] = o.file]
           /\ local' = [local EXCEPT ![t] =
                 [@ EXCEPT !.pc = "done", !.ret = [data |-> Nil, err |-> o.err]]]
           /\ lastSet' = [lastSet EXCEPT ![local[t].key] =
                 IF o.err = NoErr
                    THEN [valid |-> TRUE, data |-> local[t].data, age |-> 0]
                    ELSE NoSet]
    /\ UNCHANGED <<svars, ctx, metrics, cvars, kvars, bvars>>

\* The caller takes the result of its Get or Set.
LocalReturn(t) ==
    /\ local[t].pc = "done"
    /\ local' = [local EXCEPT ![t] = LocalIdle]
    /\ UNCHANGED <<files, lastSet, svars, ctx, metrics, cvars, kvars, bvars>>

\* One tick passes: the files get older.  Ages beyond the TTL are not told
\* apart.
LocalTick ==
    /\ \/ \E p \in Paths : files[p].exists /\ files[p].age <= CacheTTL
       \/ \E k \in Keys : lastSet[k].valid /\ lastSet[k].age <= CacheTTL
    /\ files' = [p \in Paths |->
          IF files[p].exists /\ files[p].age <= CacheTTL
             THEN [files[p] EXCEPT !.age = @ + 1] ELSE files[p]]
    /\ lastSet' = [k \in Keys |->
          IF lastSet[k].valid /\ lastSet[k].age <= CacheTTL
             THEN [lastSet[k] EXCEPT !.age = @ + 1] ELSE lastSet[k]]
    /\ UNCHANGED <<local, svars, ctx, metrics, cvars, kvars, bvars>>

LocalNext ==
    \/ \E t \in Tasks, k \in Keys, fail \in BOOLEAN : LocalGet(t, k, fail)
    \/ \E t \in Tasks, fail \in BOOLEAN : LocalRemove(t, fail)
    \/ \E t \in Tasks, fail \in BOOLEAN : LocalRead(t, fail)
    \/ \E t \in Tasks, k \in Keys, fail \in BOOLEAN :
          \E data \in Payloads(k) : LocalSet(t, k, data, fail)
    \/ \E t \in Tasks, fail \in BOOLEAN : LocalWrite(t, fail)
    \/ \E t \in Tasks : LocalReturn(t)
    \/ LocalTick

LocalSpec == Init /\ [][LocalNext]_vars

\* ------------------------------------------- warmup under a fair scheduler
\* A goroutine that can take its next step (start, or get the answer of the
\* backend call it waits for) eventually takes it.
Step(t) ==
    \/ \E fail \in BOOLEAN : Run(t, fail)
    \/ \E outcome \in S3Outcomes : Download(t, outcome)
    \/ \E fail \in BOOLEAN : Store(t, fail)

WarmupNext ==
    \/ \E ts \in SUBSET Tasks : \E f \in [ts -> Requests] : WarmupCache(ts, f)
    \/ \E t \in Tasks, fail \in BOOLEAN : Run(t, fail)
    \/ \E t \in Tasks, outcome \in S3Outcomes : Download(t, outcome)
    \/ \E t \in Tasks, fail \in BOOLEAN : Store(t, fail)
    \/ \E t \in Tasks : Return(t)
    \/ Tick

WarmupSpec == Init /\ [][WarmupNext]_vars /\ \A t \in Tasks : WF_vars(Step(t))

\* ------------------------------------------------------ process start-up
\* The process is started in some environment.
Start ==
    /\ ServiceInit /\ LocalInit /\ KeyIdle /\ BatchIdle
    /\ env \in Environments
    /\ cfg = NotLoaded

\* main calls config.Load.
LoadConfig ==
    /\ cfg = NotLoaded
    /\ cfg' = [loaded |-> TRUE, out |-> Load(env)]
    /\ UNCHANGED <<env, svars, ctx, metrics, lvars, kvars, bvars>>

ConfigSpec == Start /\ [][LoadConfig]_vars

\* ------------------------------------------------------------ key builder
KeyStart ==
    /\ ServiceInit /\ LocalInit /\ ConfigIdle /\ BatchIdle
    /\ keyReq \in KeyRequests
    /\ cacheKey = <<>>

BuildKey ==
    /\ cacheKey = <<>>
    /\ cacheKey' = generateCacheKey(keyReq)
    /\ UNCHANGED <<keyReq, svars, ctx, metrics, lvars, cvars, bvars>>

KeySpec == KeyStart /\ [][BuildKey]_vars

\* ------------------------------------------------------------ ProcessBatch
ErrMismatch == "images and options length mismatch"

\* The arguments of a call: lists of at most MaxBatch images (of the bucket or
\* bytes that are no image) and of at most MaxBatch options.
BatchImages == { GetObject(id, o).data : id \in ImageIDs, o \in {"image", "garbage"} }
BatchOptions == { WatermarkOptions(r) : r \in Requests }
ListsOf(S) == UNION { [1..n -> S] : n \in 0..MaxBatch }

\* Mutant: the errors slice is searched from its end.
BatchOutcomeLastError(results, errors) ==
    LET failed == { i \in DOMAIN errors : errors[i] # NoErr }
    IN  IF failed = {} THEN [results |-> results, err |-> NoErr, at |-> 0]
        ELSE LET i == CHOOSE j \in failed : \A l \in failed : l <= j
             IN  [results |-> Nil, err |-> errors[i], at |-> i]

\* After wg.Wait: the first non-nil error of the errors slice in index order,
\* or the results slice.
BatchOutcome(results, errors) ==
    LET failed == { i \in DOMAIN errors : errors[i] # NoErr }
    IN  IF failed = {} THEN [results |-> results, err |-> NoErr, at |-> 0]
        ELSE LET i == CHOOSE j \in failed : \A l \in failed : j <= l
             IN  [results |-> Nil, err |-> errors[i], at |-> i]

BatchStart ==
    /\ ServiceInit /\ LocalInit /\ ConfigIdle /\ KeyIdle
    /\ batch \in { [NoBatch EXCEPT !.images = im, !.opts = op] :
                      im \in ListsOf(BatchImages), op \in ListsOf(BatchOptions) }

\* ProcessBatch is called: the length test and the two slices.
ProcessBatch ==
    /\ batch.pc = "idle"
    /\ batch' =
          IF Len(batch.images) # Len(batch.opts)
             THEN [batch EXCEPT !.pc = "returned",
                                !.ret = [results |-> Nil, err |-> ErrMismatch, at |-> 0]]
             ELSE [batch EXCEPT !.pc = "spawn",
                                !.results = [i \in DOMAIN batch.images |-> Nil],
                                !.errors = [i \in DOMAIN batch.images |-> NoErr]]
    /\ UNCHANGED <<svars, ctx, metrics, lvars, cvars, kvars>>

\* One turn of the loop: wg.Add(1) and the go statement for the next index.
BatchGo ==
    /\ batch.pc = "spawn"
    /\ batch.spawned < Len(batch.images)
    /\ batch' = [batch EXCEPT !.spawned = @ + 1, !.running = @ \cup {batch.spawned + 1}]
    /\ UNCHANGED <<svars, ctx, metrics, lvars, cvars, kvars>>

\* The goroutine of index idx: AddWatermark, its two stores, wg.Done.
BatchWork(idx) ==
    /\ idx \in batch.running
    /\ LET o == AddWatermark(batch.images[idx], batch.opts[idx])
       IN  batch' = [batch EXCEPT !.results[idx] = o.data, !.errors[idx] = o.err,
                                  !.running = @ \ {idx}]
    /\ UNCHANGED <<svars, ctx, metrics, lvars, cvars, kvars>>

\* wg.Wait returns when every started goroutine is done; then the return.
BatchWait ==
    /\ batch.pc = "spawn"
    /\ batch.spawned = Len(batch.images)
    /\ batch.running = {}
    /\ batch' = [batch EXCEPT !.pc = "returned",
                              !.ret = BatchOutcome(batch.results, batch.errors)]
    /\ UNCHANGED <<svars, ctx, metrics, lvars, cvars, kvars>>

BatchNext ==
    \/ ProcessBatch
    \/ BatchGo
    \/ \E idx \in 1..MaxBatch : BatchWork(idx)
    \/ BatchWait

BatchSpec == BatchStart /\ [][BatchNext]_vars

\* ------------------------------------- requests whose caller may go away
\* ProcessImage called from GetImage with the context of the HTTP request,
\* the cache and its connection being healthy.
CancelNext ==
    \/ \E t \in Tasks, r \in Requests : Call(t, r, FALSE)
    \/ \E t \in Tasks, outcome \in S3Outcomes : Download(t, outcome)
    \/ \E t \in Tasks : Store(t, FALSE)
    \/ \E t \in Tasks : Return(t)
    \/ \E t \in Tasks : Cancel(t)

CancelSpec == Init /\ [][CancelNext]_vars

\* ---------------------------------------------------------------- claims
Has(t, e) == \E i \in DOMAIN trace[t] : trace[t][i] = e

\* The step in which task t makes a ProcessImage call (it runs its cache.Get).
Calls(t) == trace[t] = <<>> /\ trace'[t] # <<>>

\* The answers of the bucket and of the transformer to a request.
Downstream(t) ==
    SelectSeq(trace[t], LAMBDA e : e \in {"s3:ok", "s3:err", "xf:ok", "xf:err"})

\* C1, as stated: a ProcessImage call made after a successful call with the same
\* arguments, within the TTL, returns that call's output from the cache, with
\* no GetObject and no AddWatermark call.
C1_Original ==
    [][\A t \in Tasks :
          (Calls(t) /\ last.known /\ last.req = req'[t])
              => (pc'[t] = "done" /\ result'[t] = [data |-> last.out, err |-> NoErr])]_vars

\* C1, amended: a ProcessImage call made after a successful call with the same
\* arguments, within the TTL, whose cache Get returns no store error and finds
\* that call's output still stored under the key, returns that output, with
\* no GetObject and no AddWatermark call.
C1_CacheAside ==
    [][\A t \in Tasks :
          (/\ Calls(t)
           /\ last.known /\ last.req = req'[t]
           /\ trace'[t][1] # "get:err"
           /\ store[key'[t]].present
           /\ store[key'[t]].val = last.out)
              => (/\ pc'[t] = "done"
                  /\ result'[t] = [data |-> last.out, err |-> NoErr]
                  /\ trace'[t] = <<"get:hit">>)]_vars

C1_Witness ==
    \E t \in Tasks :
        /\ pc[t] = "done" /\ trace[t] = <<"get:hit">>
        /\ last.known /\ last.req = req[t]
        /\ result[t] = [data |-> Expected(req[t]), err |-> NoErr]

\* C2: when the blob fetch and the transform succeeded, ProcessImage returns
\* the transformed bytes and a nil error, whatever the cache Set returned.
C2_WriteFailureTolerance ==
    \A t \in Tasks :
        (pc[t] = "done" /\ Has(t, "xf:ok"))
            => result[t] = [data |-> Expected(req[t]), err |-> NoErr]

C2_Witness ==
    \E t \in Tasks :
        /\ pc[t] = "done" /\ Has(t, "set:err")
        /\ result[t] = [data |-> Expected(req[t]), err |-> NoErr]

\* C3: a request whose cache Get returned a store error goes on to the blob
\* fetch, and ends as a request with the same arguments whose Get returned
\* absent and that got the same answers from the bucket and the transformer.
C3_GetErrorIsMiss ==
    /\ \A t \in Tasks :
          (trace[t] # <<>> /\ trace[t][1] = "get:err")
              => /\ pc[t] \in {"s3", "set", "done"}
                 /\ pc[t] = "done" => Len(trace[t]) >= 2 /\ result[t].err # ErrRedisGet
    /\ \A t, u \in Tasks :
          (/\ pc[t] = "done" /\ pc[u] = "done" /\ req[t] = req[u]
           /\ trace[t][1] = "get:err" /\ trace[u][1] = "get:miss"
           /\ Downstream(t) = Downstream(u))
              => result[t] = result[u]

C3_Witness ==
    \E t, u \in Tasks :
        /\ pc[t] = "done" /\ pc[u] = "done" /\ req[t] = req[u]
        /\ trace[t][1] = "get:err" /\ trace[u][1] = "get:miss"
        /\ Downstream(t) = Downstream(u)
        /\ result[t].err = NoErr

\* C4: when AddWatermark fails, ProcessImage returns an error, issues no cache
\* Set, and the step leaves the cache as it was.
C4_TransformFailureNotCached ==
    /\ [](\A t \in Tasks :
            Has(t, "xf:err")
                => /\ pc[t] = "done"
                   /\ result[t] = [data |-> Nil, err |-> ErrProcess]
                   /\ ~Has(t, "set:ok") /\ ~Has(t, "set:err"))
    /\ [][\A t \in Tasks :
            (~Has(t, "xf:err") /\ Has(t, "xf:err")') => store' = store]_vars

C4_Witness ==
    \E t \in Tasks :
        /\ pc[t] = "done" /\ Has(t, "xf:err") /\ result[t].err = ErrProcess
        /\ store[key[t]] = NoEntry

\* C5: when GetObject fails on the miss path, ProcessImage returns an error,
\* AddWatermark is not called and no cache Set is issued.
C5_BlobFailureIsFatal ==
    \A t \in Tasks :
        Has(t, "s3:err")
            => /\ pc[t] = "done"
               /\ result[t] = [data |-> Nil, err |-> ErrDownload]
               /\ ~Has(t, "xf:ok") /\ ~Has(t, "xf:err")
               /\ ~Has(t, "set:ok") /\ ~Has(t, "set:err")

C5_Witness ==
    \E t \in Tasks :
        /\ pc[t] = "done" /\ trace[t] = <<"get:miss", "s3:err">>
        /\ result[t].err = ErrDownload

\* C6, as stated: no operation of the service returns a failure of the cache
\* (get, set, scan or delete); only blob and transform failures are returned.
C6_Original ==
    /\ \A t \in Tasks :
          pc[t] = "done" => result[t].err \in {NoErr, ErrDownload, ErrProcess}
    /\ warmup.err = NoErr
    /\ inv.pc = "done" => inv.err = NoErr

\* C6, amended: ProcessImage returns an error exactly for a failure of
\* GetObject or of AddWatermark, never for a failure of the cache Get or Set,
\* and WarmupCache returns no error; InvalidateCache returns an error exactly
\* when the scan or the delete of DeleteByPattern failed.
C6_ErrorsReturned ==
    /\ \A t \in Tasks :
          pc[t] = "done"
              => /\ result[t].err \in {NoErr, ErrDownload, ErrProcess}
                 /\ result[t].err = ErrDownload <=> Has(t, "s3:err")
                 /\ result[t].err = ErrProcess <=> Has(t, "xf:err")
    /\ warmup.err = NoErr
    /\ inv.pc = "done" => (inv.err = ErrInvalidate <=> inv.cacheErr \in {ErrScan, ErrDel})

C6_Witness ==
    /\ inv.pc = "done" /\ inv.cacheErr = ErrDel /\ inv.err = ErrInvalidate
    /\ warmup.pc = "returned"
    /\ \E t \in Tasks :
          pc[t] = "done" /\ Has(t, "get:err") /\ Has(t, "set:err") /\ result[t].err = NoErr

\* C7: two requests that differ in identifier, weight or dimensions get
\* different cache keys.
C7_KeysDistinct ==
    \A t, u \in Tasks :
        (key[t] # <<>> /\ key[u] # <<>> /\ req[t] # req[u]) => key[t] # key[u]

\* C8: a completed InvalidateCache(id) took for deletion every key that was
\* built for id, and removed no key that was built for another identifier.
C8_InvalidationScope ==
    (inv.pc = "done" /\ inv.err = NoErr)
        => /\ inv.owned \subseteq inv.keys
           /\ \A e \in inv.removed : e[2] = inv.id

\* C9: InvalidateCache of an identifier with no cached entry, the cache
\* answering without error, succeeds with a count of zero.
C9_EmptyNamespaceZero ==
    (inv.pc = "done" /\ inv.owned = {} /\ inv.cacheErr = NoErr)
        => (inv.err = NoErr /\ inv.count = 0)

\* C10: a completed InvalidateCache(id), run when a ProcessImage result for
\* id is cached, removes at least one entry, the entries of id among them, so
\* that the next ProcessImage for them misses.
C10_InvalidateThenMiss ==
    (inv.pc = "done" /\ inv.err = NoErr /\ inv.owned # {})
        => (inv.count >= 1 /\ inv.owned \subseteq inv.keys)

\* C11: every request dispatched by WarmupCache ends, and unless one of its
\* own calls (GetObject, AddWatermark, cache Set) failed it ends with its
\* result and no error, the result being in the cache when its Set returns,
\* whatever the requests beside it did; WarmupCache returns no error.
OwnCallsOk(t) == ~Has(t, "s3:err") /\ ~Has(t, "xf:err") /\ ~Has(t, "set:err")

ItemSucceeded(t) ==
    /\ result[t].err = NoErr
    /\ \/ trace[t] = <<"get:hit">>
       \/ Has(t, "set:ok") /\ result[t].data = Expected(req[t])

C11_WarmupIsolation ==
    /\ \A t \in Tasks :
          (pc[t] = "get") ~> (pc[t] = "done" /\ (OwnCallsOk(t) => ItemSucceeded(t)))
    /\ [](\A t \in Tasks : (pc[t] = "done" /\ OwnCallsOk(t)) => ItemSucceeded(t))
    /\ [][\A t \in Tasks :
            (~Has(t, "set:ok") /\ Has(t, "set:ok")')
                => (store'[key[t]].present /\ store'[key[t]].val = Expected(req[t]))]_vars
    /\ [](warmup.err = NoErr)

C11_Witness ==
    /\ warmup.pc = "returned" /\ warmup.n = NumTasks
    /\ \E t, u \in Tasks :
          /\ pc[t] = "done" /\ Has(t, "s3:err") /\ result[t].err = ErrDownload
          /\ pc[u] = "done" /\ key[u] # key[t]
          /\ trace[u] = <<"get:miss", "s3:ok", "xf:ok", "set:ok">>
          /\ result[u] = [data |-> Expected(req[u]), err |-> NoErr]
          /\ store[key[u]].present /\ store[key[u]].val = Expected(req[u])

\* C12: the step of WarmupCache starts one ProcessImage task for each of the
\* n requests of its list and returns nil at once: after the step none of the
\* tasks has made a call or has a result, no other task and no cache entry has
\* changed, and the error of WarmupCache is nil then and ever after.
Dispatched == { t \in Tasks : pc[t] = "idle" /\ pc'[t] = "get" }

C12_FireAndForget ==
    /\ [][(warmup' # warmup \/ Dispatched # {})
            => /\ warmup'.pc = "returned" /\ warmup'.err = NoErr
               /\ Cardinality(Dispatched) = warmup'.n
               /\ \A t \in Dispatched :
                     req'[t] \in Requests /\ trace'[t] = <<>> /\ result'[t] = NoResult
               /\ \A t \in Tasks \ Dispatched : pc'[t] = pc[t] /\ req'[t] = req[t]
               /\ store' = store]_vars
    /\ [](warmup.err = NoErr)

\* WarmupCache has returned and none of its tasks has started.
C12_Witness ==
    /\ warmup = [pc |-> "returned", n |-> NumTasks, err |-> NoErr]
    /\ \A t \in Tasks : pc[t] = "get" /\ trace[t] = <<>>

\* C13: a Get of the cache that returns a payload returns the whole transform
\* result that some request set under the key, also while other requests set
\* the same key (here for the local-filesystem backend).
C13_NeverCorrupted ==
    \A t \in Tasks :
        (local[t].op = "Get" /\ local[t].pc = "done" /\ local[t].ret.data # Nil)
            => local[t].ret.data \in Payloads(local[t].key)

\* C14, as stated: a LocalCache.Get that finds the file of the key older than
\* the TTL returns absent (nil, nil) and the file is gone when it returns.
StaleGetReturns(t) == local[t].pc = "remove" /\ local'[t].pc = "done"

C14_Original ==
    [][\A t \in Tasks :
          StaleGetReturns(t)
              => /\ local'[t].ret = [data |-> Nil, err |-> NoErr]
                 /\ ~files'[getFilePath(local[t].key)].exists]_vars

\* C14, amended: a LocalCache.Get that finds the file of the key older than
\* the TTL returns absent (nil, nil); the file is gone when it returns unless
\* its removal failed, and then the directory is left as it was.
C14_StaleIsAbsent ==
    [][\A t \in Tasks :
          StaleGetReturns(t)
              => /\ local'[t].ret = [data |-> Nil, err |-> NoErr]
                 /\ local'[t].rmErr = NoErr
                        => ~files'[getFilePath(local[t].key)].exists
                 /\ local'[t].rmErr # NoErr => files' = files]_vars

\* A stale file was found by a Get, which removed it and returned absent.
C14_Witness ==
    \E t \in Tasks :
        /\ local[t].op = "Get" /\ local[t].pc = "done"
        /\ local[t].stale /\ local[t].rmErr = NoErr
        /\ local[t].ret = [data |-> Nil, err |-> NoErr]
        /\ ~files[getFilePath(local[t].key)].exists
        /\ \A u \in Tasks \ {t} : local[u].op = "idle"

\* C15: the count of a DeleteByPattern that returned no error is the number
\* of keys its bulk delete removed from the store.
C15_CountIsRemoved ==
    (inv.pc = "done" /\ inv.cacheErr = NoErr) => inv.count = Cardinality(inv.removed)

\* C16: with a healthy cache, the cache Set of a request whose transform
\* succeeded stores the result under the key of the request, also when the
\* context of the caller was cancelled after the transform.
C16_WriteSurvivesCancel ==
    [][\A t \in Tasks :
          (pc[t] = "set" /\ pc'[t] = "done")
              => (store'[key[t]].present /\ store'[key[t]].val = processed[t])]_vars

\* C17: config.Load run with CACHE_PROVIDER set to a value other than redis
\* and local returns an error and no Config.
UnknownProvider(e) ==
    e["CACHE_PROVIDER"].set /\ e["CACHE_PROVIDER"].val \notin {Str("redis"), Str("local")}

C17_UnknownBackendFatal ==
    (cfg.loaded /\ UnknownProvider(env)) => (cfg.out.err # NoErr /\ cfg.out.cfg = Nil)

\* C18: config.Load run with S3_BUCKET, S3_ACCESS_KEY_ID or
\* S3_SECRET_ACCESS_KEY unset or empty returns an error and no Config.
Missing(e, k) == ~e[k].set \/ e[k].val = <<>>

C18_RequiredSettings ==
    (/\ cfg.loaded
     /\ \/ Missing(env, "S3_BUCKET")
        \/ Missing(env, "S3_ACCESS_KEY_ID")
        \/ Missing(env, "S3_SECRET_ACCESS_KEY"))
        => (cfg.out.err # NoErr /\ cfg.out.cfg = Nil)

\* C19: the calls of a request are made in the order cache Get, GetObject,
\* AddWatermark, cache Set, each only after the one before it succeeded (the
\* Get: missed), under the key built from the request; an entry is written to
\* the cache only by the Set of a request, under the key that request looked
\* up, with the bytes the request then returns.
InOrder(tr) ==
    /\ Len(tr) <= 4
    /\ Len(tr) >= 1 => tr[1] \in {"get:hit", "get:miss", "get:err"}
    /\ Len(tr) >= 2 => tr[1] # "get:hit" /\ tr[2] \in {"s3:ok", "s3:err"}
    /\ Len(tr) >= 3 => tr[2] = "s3:ok" /\ tr[3] \in {"xf:ok", "xf:err"}
    /\ Len(tr) >= 4 => tr[3] = "xf:ok" /\ tr[4] \in {"set:ok", "set:err"}

SetReturns(t) == Len(trace[t]) = 3 /\ Len(trace'[t]) = 4

Written(k) ==
    /\ store'[k].present
    /\ ~store[k].present \/ store'[k].val # store[k].val \/ store'[k].age < store[k].age

C19_StepOrder ==
    /\ [](\A t \in Tasks :
            /\ InOrder(trace[t])
            /\ trace[t] # <<>> => key[t] = generateCacheKey(req[t]))
    /\ [][\A t \in Tasks :
            SetReturns(t)
                => /\ result'[t] = [data |-> Expected(req[t]), err |-> NoErr]
                   /\ \A k \in Keys \ {key[t]} : store'[k] = store[k]
                   /\ trace'[t][4] = "set:ok"
                          => (store'[key[t]].present
                              /\ store'[key[t]].val = result'[t].data)
                   /\ trace'[t][4] = "set:err" => store' = store]_vars
    /\ [][\A k \in Keys :
            Written(k) => \E t \in Tasks : SetReturns(t) /\ key[t] = k]_vars

C19_Witness ==
    \E t \in Tasks :
        /\ pc[t] = "done" /\ trace[t] = <<"get:miss", "s3:ok", "xf:ok", "set:ok">>
        /\ store[key[t]].present /\ store[key[t]].val = result[t].data
        /\ result[t] = [data |-> Expected(req[t]), err |-> NoErr]

\* C20: the key is "image:", the identifier, ":", the weight written as its
\* integer part, a point and two decimals (the nearest hundredth), ":", the
\* dimensions; photo-42, 12.50, 30x20x15 gives image:photo-42:12.50:30x20x15.
Digits == {"0", "1", "2", "3", "4", "5", "6", "7", "8", "9"}
DigitValue(c) == CHOOSE n \in 0..9 : Digit(n) = c

RECURSIVE ParseNat(_)
ParseNat(s) ==
    IF s = <<>> THEN 0 ELSE 10 * ParseNat(SubSeq(s, 1, Len(s) - 1)) + DigitValue(s[Len(s)])

TwoDecimals(s, w) ==
    /\ Len(s) >= 4
    /\ s[Len(s) - 2] = "."
    /\ \A i \in (1..Len(s)) \ {Len(s) - 2} : s[i] \in Digits
    /\ Len(s) > 4 => s[1] # "0"
    /\ LET h == 100 * ParseNat(SubSeq(s, 1, Len(s) - 3))
                 + ParseNat(SubSeq(s, Len(s) - 1, Len(s)))
       IN  10 * h - 5 < w /\ w < 10 * h + 5

ExampleKey ==
    <<"i", "m", "a", "g", "e", ":", "p", "h", "o", "t", "o", "-", "4", "2", ":",
      "1", "2", ".", "5", "0", ":", "3", "0", "x", "2", "0", "x", "1", "5">>

Returns(t) == pc[t] # "done" /\ pc'[t] = "done"

\* The call of task t returns the payload it found in the cache.
ReturnsCached(t) ==
    /\ Calls(t) /\ Returns(t)
    /\ result'[t].err = NoErr /\ result'[t].data # Nil

\* The returning call of task t has called the transformer.
ReachedTransform(t) ==
    \E i \in DOMAIN trace'[t] : trace'[t][i] \in {"xf:ok", "xf:err"}

\* C21: the step in which a ProcessImage call completes its cache lookup adds
\* one to exactly one counter, the hit counter if and only if the call returns
\* the cached payload, otherwise (a lookup error included) the miss counter,
\* and no other step changes a counter: starting from zero, hits + misses is
\* the number of calls that completed their lookup, whatever they do later.
C21_OneCounterPerCall ==
    [][LET looked == { t \in Tasks : Calls(t) }
           hits == { t \in Tasks : ReturnsCached(t) }
       IN  /\ metrics'.cacheHits = metrics.cacheHits + Cardinality(hits)
           /\ metrics'.cacheMisses =
                  metrics.cacheMisses + Cardinality(looked \ hits)]_vars

\* A hit and a miss have been counted, and a call whose lookup failed with a
\* store error has been counted and then failed at the bucket.
C21_Witness ==
    /\ metrics.cacheHits >= 1
    /\ metrics.cacheMisses >= 2
    /\ \E t \in Tasks : /\ pc[t] = "done" /\ Has(t, "get:err")
                         /\ result[t].err = ErrDownload

\* C22: the duration histogram gets one observation when a call that reached
\* the transform step returns, and none when a call is answered from the
\* cache.
C22_ObservesMissesOnly ==
    [][\A t \in Tasks :
          /\ Returns(t) /\ ReachedTransform(t)
                => metrics'.processingDuration = metrics.processingDuration + 1
          /\ ReturnsCached(t)
                => metrics'.processingDuration = metrics.processingDuration]_vars

\* ------------------------------------------------- local cache round trip
\* The Set of key k that returned nil last, with no Set of k begun and no
\* file of k removed since, is not older than the TTL.
Live(k) == lastSet[k].valid /\ lastSet[k].age <= CacheTTL

\* The step in which task t begins a Get (its os.Stat) and the step in which
\* it reads the file.
Stats(t) == local[t].op = "idle" /\ local'[t].op = "Get"
Reads(t) == local[t].pc = "read" /\ local'[t].pc = "done"

\* C23: after a Set(key, data) that returned nil, with no later Set or
\* removal of the key, a Get(key) made within the TTL of that Set, whose
\* filesystem calls succeed, finds the file fresh and returns exactly data.
C23_RoundTrip ==
    [][\A t \in Tasks :
          /\ (Stats(t) /\ Live(local'[t].key) /\ local'[t].ret.err = NoErr)
                => local'[t].pc = "read"
          /\ (Reads(t) /\ Live(local[t].key) /\ local'[t].ret.err = NoErr)
                => local'[t].ret.data = lastSet[local[t].key].data]_vars

\* C24: a Get that finds the entry expired and whose os.Remove of the stale
\* file fails returns absent with a nil error, neither the failure nor the
\* stale payload.
C24_RemoveFailureIsMiss ==
    [][\A t \in Tasks :
          (StaleGetReturns(t) /\ local'[t].rmErr # NoErr)
              => /\ local'[t].ret.err = NoErr
                 /\ local'[t].ret.data = Nil]_vars

\* A Get found a stale file, failed to remove it, and returned absent while
\* the stale file is still in the directory.
C24_Witness ==
    \E t \in Tasks :
        /\ local[t].op = "Get" /\ local[t].pc = "done"
        /\ local[t].stale /\ local[t].rmErr = ErrRemove
        /\ local[t].ret = [data |-> Nil, err |-> NoErr]
        /\ LET f == files[getFilePath(local[t].key)]
           IN  f.exists /\ f.age > CacheTTL /\ f.data \in Payloads(local[t].key)

\* C25: the os.Remove of a Get that saw a stale file never removes a fresh
\* file that a Set has finished writing since.
C25_FreshEntryKept ==
    [][\A t \in Tasks :
          LET k == local[t].key
              p == getFilePath(k)
          IN  (/\ StaleGetReturns(t)
               /\ Live(k)
               /\ files[p].exists /\ files[p].age <= CacheTTL
               /\ files[p].data = lastSet[k].data)
                  => files'[p] = files[p]]_vars

\* ------------------------------------------------------------ ProcessBatch
\* The watermark of item i of the call and the items that fail.
ItemOutcome(i) == AddWatermark(batch.images[i], batch.opts[i])
FailingItems == { i \in DOMAIN batch.images : ItemOutcome(i).err # NoErr }

\* C26: ProcessBatch rejects lists of different length with an error before
\* any task starts; for lists of equal length it starts one task per item,
\* returns only when all of them have finished, and returns either the list
\* of the watermarks of images[i] with opts[i], or, if an item failed, no
\* results and the error of the failing item of lowest index.
C26_AllOrNothing ==
    /\ batch.spawned <= Len(batch.images)
    /\ Len(batch.images) # Len(batch.opts) => batch.spawned = 0
    /\ batch.pc = "returned" =>
          IF Len(batch.images) # Len(batch.opts)
             THEN batch.ret = [results |-> Nil, err |-> ErrMismatch, at |-> 0]
          ELSE /\ batch.spawned = Len(batch.images)
               /\ batch.running = {}
               /\ IF FailingItems = {}
                     THEN /\ batch.ret.err = NoErr
                          /\ batch.ret.results =
                                 [i \in DOMAIN batch.images |-> ItemOutcome(i).data]
                     ELSE \E i \in FailingItems :
                             /\ \A j \in FailingItems : i <= j
                             /\ batch.ret =
                                    [results |-> Nil, err |-> ItemOutcome(i).err, at |-> i]

\* A call with MaxBatch items has returned the error of its first item while
\* its last item failed too.
C26_Witness ==
    /\ batch.pc = "returned"
    /\ Len(batch.images) = MaxBatch /\ Len(batch.opts) = MaxBatch
    /\ {1, MaxBatch} \subseteq FailingItems
    /\ batch.ret.at = 1 /\ batch.ret.results = Nil
====
